---- MODULE Spec2Model ----
(***************************************************************************)
(* Model of Pipe._get_relevant_context (pipelines/mimir_rag_auto.py): one  *)
(* retrieval against the embedding client and the graph store.             *)
(*                                                                         *)
(* Scores are integers in thousandths (0.55 is 550), so 0.02, 0.03 and 0.1 *)
(* are 20, 30 and 100.  Text is TLA+ strings; NULL stands for a Cypher     *)
(* null / Python None and is never the value of a real string.             *)
(***************************************************************************)
EXTENDS Integers, Sequences, FiniteSets, TLC

\* ------------------------------------------------------------------ bounds
MaxLimit == 3          \* SEMANTIC_SEARCH_LIMIT ranges over 0..MaxLimit
MaxStore == 3          \* nodes held by the store
MaxGraphRecs == 2      \* rows a traversal answers with (below GRAPH_LIMIT)

\* ------------------------------------------------------- program constants
FALLBACK_HIGH == 400   \* threshold_attempts.append(0.4)
FALLBACK_LOW == 300    \* threshold_attempts.append(0.3)
KEYWORD_MIN_LEN == 3   \* len(w.strip()) > 3
KEYWORD_BOOST == 20    \* * 0.02 per keyword match
MIN_FETCH == 20        \* max(20, SEMANTIC_SEARCH_LIMIT * 2)
SEED_COUNT == 3        \* [:3] expand from top 3 results
GRAPH_LIMIT == 5       \* LIMIT 5 of graph_query
HOP_PENALTY == 100     \* ghops * 0.1
GRAPH_FLOOR == 500     \* max(0.5, ...)
DIVERSITY_BOOST == 30  \* (chunk_count - 1) * 0.03
TOP_CHUNKS == 2        \* agg["chunks"][:2]
PROJECT_INDEX == 2     \* pathParts[2]
EXCELLENT == 900
HIGH == 800
GOOD == 750

NULL == "<null>"

Max(a, b) == IF a >= b THEN a ELSE b
Min(a, b) == IF a <= b THEN a ELSE b

\* ------------------------------------------------------------------- text
Char(s, i) == SubSeq(s, i, i)
Tail1(s) == SubSeq(s, 2, Len(s))

LowerMap == [A |-> "a", B |-> "b", C |-> "c", D |-> "d"]
LowerChar(c) == IF c \in DOMAIN LowerMap THEN LowerMap[c] ELSE c

\* str.lower() / toLower()
RECURSIVE Lower(_)
Lower(s) == IF Len(s) = 0 THEN "" ELSE LowerChar(Char(s, 1)) \o Lower(Tail1(s))

\* str.split(): split on runs of whitespace, no empty tokens
RECURSIVE SplitWs(_, _, _)
SplitWs(s, cur, acc) ==
    IF Len(s) = 0 THEN (IF cur = "" THEN acc ELSE Append(acc, cur))
    ELSE IF Char(s, 1) = " "
         THEN SplitWs(Tail1(s), "", IF cur = "" THEN acc ELSE Append(acc, cur))
         ELSE SplitWs(Tail1(s), cur \o Char(s, 1), acc)

\* Cypher split(path, '/'): keeps empty parts
RECURSIVE SplitOn(_, _, _, _)
SplitOn(s, sep, cur, acc) ==
    IF Len(s) = 0 THEN Append(acc, cur)
    ELSE IF Char(s, 1) = sep
         THEN SplitOn(Tail1(s), sep, "", Append(acc, cur))
         ELSE SplitOn(Tail1(s), sep, cur \o Char(s, 1), acc)

\* Cypher CONTAINS on two strings
Contains(s, kw) ==
    \E i \in 1..(Len(s) - Len(kw) + 1) : SubSeq(s, i, i + Len(kw) - 1) = kw

\* Python truthiness of a string-or-None
Truthy(s) == s # NULL /\ s # ""

\* sorted(..., key=..., reverse=True): stable, descending by key[i]
StableSortDesc(s, key) ==
    LET n == Len(s)
        pos == [i \in 1..n |-> 1 + Cardinality({j \in 1..n :
                        key[j] > key[i] \/ (key[j] = key[i] /\ j < i)})]
    IN  [p \in 1..n |-> s[CHOOSE i \in 1..n : pos[i] = p]]

\* seq[:k] for k >= 0
Prefix(s, k) == SubSeq(s, 1, Min(Len(s), k))

\* ------------------------------------------------------------ the store
\* Nodes the store may hold.  sim is the cosine similarity (thousandths) of
\* the node's embedding with the query embedding, as the query computes it.
AllNodes == {
    [kind |-> "file_chunk", path |-> "/w/A/auth", name |-> "auth",
     content |-> "Auth x", sim |-> 800, start_offset |-> 0],
    [kind |-> "file_chunk", path |-> "/w/A/auth", name |-> "auth",
     content |-> "y", sim |-> 600, start_offset |-> 9],
    [kind |-> "file", path |-> "/w/B/b", name |-> "b",
     content |-> "auth", sim |-> 380, start_offset |-> 0],
    [kind |-> "file", path |-> "/w/B/c", name |-> "c",
     content |-> "", sim |-> 760, start_offset |-> 0],
    [kind |-> "memory", path |-> "note", name |-> "note",
     content |-> "m", sim |-> 350, start_offset |-> 0],
    [kind |-> "file", path |-> NULL, name |-> "n",
     content |-> "q", sim |-> 450, start_offset |-> 0] }

Stores == {S \in SUBSET AllNodes : Cardinality(S) <= MaxStore}

\* A store with more matching nodes than the query fetches: MIN_FETCH files
\* whose content and path hold the word auth, and one file that does not
Letters == <<"a", "b", "c", "d", "e", "f", "g", "h", "i", "j", "k", "l", "m",
             "n", "o", "p", "q", "r", "s", "t">>

KeywordNodes ==
    {[kind |-> "file", path |-> "/w/D/auth" \o Letters[i], name |-> Letters[i],
      content |-> "auth", sim |-> 540 + i, start_offset |-> 0] : i \in 1..MIN_FETCH}

PlainNode ==
    [kind |-> "file", path |-> "/w/B/plain", name |-> "plain",
     content |-> "p", sim |-> 575, start_offset |-> 0]

LargeStores == {KeywordNodes, KeywordNodes \cup {PlainNode}}

\* CASE WHEN size(pathParts) > 2 THEN pathParts[2] ELSE 'unknown' END;
\* split(null) is null and null > 2 is not true
ProjectOfPath(path) ==
    IF path = NULL THEN "unknown"
    ELSE LET pathParts == SplitOn(path, "/", "", <<>>)
         IN  IF Len(pathParts) > PROJECT_INDEX
             THEN pathParts[PROJECT_INDEX + 1] ELSE "unknown"

ProjectName(n) == IF n.kind = "memory" THEN "memory" ELSE ProjectOfPath(n.path)

RECURSIVE KeywordMatches(_, _, _)
KeywordMatches(content, source_path, keywords) ==
    IF Len(keywords) = 0 THEN 0
    ELSE LET kw == Head(keywords)
             text == IF content = NULL THEN "" ELSE content
         IN  (IF Contains(Lower(text), kw) THEN 1 ELSE 0)
             + (IF source_path # NULL /\ Contains(Lower(source_path), kw)
                THEN 1 ELSE 0)
             + KeywordMatches(content, source_path, Tail(keywords))

KeywordBoost(content, source_path, enableHybrid, keywords) ==
    IF enableHybrid /\ Len(keywords) > 0
    THEN KeywordMatches(content, source_path, keywords) * KEYWORD_BOOST
    ELSE 0

\* One row of the similarity query for node n
Row(n, enableHybrid, keywords) ==
    [content |-> n.content, start_offset |-> n.start_offset,
     file_path |-> n.path, file_name |-> n.name, similarity |-> n.sim,
     boosted_similarity |->
         n.sim + KeywordBoost(n.content, n.path, enableHybrid, keywords),
     source_type |-> n.kind, project_name |-> ProjectName(n)]

\* Variant: the comparison of the WHERE clause the other way round
MatchingBelow(store, minThreshold) == {n \in store : n.sim <= minThreshold}

\* WHERE similarity >= $minThreshold, in each of the three branches
Matching(store, minThreshold) == {n \in store : n.sim >= minThreshold}

\* ORDER BY boosted_similarity DESC: any order of the rows that is descending
\* (rows of equal boosted_similarity come in any order)
RECURSIVE DescOrders(_)
DescOrders(rows) ==
    IF rows = {} THEN {<<>>}
    ELSE LET top == {r \in rows : \A q \in rows :
                        r.boosted_similarity >= q.boosted_similarity}
         IN  UNION {{<<r>> \o s : s \in DescOrders(rows \ {r})} : r \in top}

\* The answers the store may give to the similarity query (cypher)
SimilarityQuery(store, minThreshold, enableHybrid, keywords, initialLimit) ==
    LET rows == {Row(n, enableHybrid, keywords) : n \in Matching(store, minThreshold)}
    IN  {Prefix(s, initialLimit) : s \in DescOrders(rows)}

\* Related files a traversal may reach, with the lengths of the paths that
\* lead to each (dist); which of them a traversal returns is left open.
AllRelated == {
    [path |-> "/w/B/b", name |-> "b", contents |-> <<"auth">>, dist |-> {1}],
    [path |-> "/w/C/e", name |-> "e", contents |-> <<NULL>>, dist |-> {2}],
    [path |-> "/w/A/f", name |-> "f", contents |-> <<"f1", "f2">>,
     dist |-> {1, 2}] }

\* One row of graph_query
GraphRow(f, h) ==
    [file_path |-> f.path, file_name |-> f.name, contents |-> f.contents,
     hops |-> h, project_name |-> ProjectOfPath(f.path)]

\* Rows graph_query can produce: a related file other than its start path,
\* at most depth hops away
GraphRows(startPaths, depth) ==
    UNION {{GraphRow(f, h) : h \in f.dist \cap 1..depth} :
           f \in {g \in AllRelated : \E sp \in startPaths : g.path # sp}}

\* The answers the store may give to graph_query: at most GRAPH_LIMIT rows
GraphQuery(startPaths, depth) ==
    LET rows == GraphRows(startPaths, depth)
        cap == Min(GRAPH_LIMIT, MaxGraphRecs)
    IN  UNION {{s \in [1..n -> rows] : \A i, j \in 1..n : i # j => s[i] # s[j]} :
               n \in 0..cap}

\* ------------------------------------------------- _get_embedding
\* What the embedding endpoint may do
EmbedResponses == {"vector", "no_key", "null", "http_error", "exception"}

\* The value _get_embedding returns
GetEmbedding(resp) ==
    CASE resp = "vector" -> "vector"
      [] resp = "no_key" -> "empty"
      [] resp = "null" -> NULL
      [] resp = "http_error" -> "empty"
      [] resp = "exception" -> "empty"

\* Variant: `if embedding is None`
EmbeddingIsNone(e) == e = NULL

\* `not embedding`
EmbeddingMissing(e) == e = NULL \/ e = "empty"

\* ------------------------------------------------- _get_relevant_context
\* Variant: the fallbacks are appended when T >= 0.4 and T >= 0.3
ThresholdAttemptsInclusive(T, adaptive) ==
    LET a0 == <<T>>
        a1 == IF adaptive /\ T >= FALLBACK_HIGH THEN Append(a0, FALLBACK_HIGH) ELSE a0
    IN  IF adaptive /\ T >= FALLBACK_LOW THEN Append(a1, FALLBACK_LOW) ELSE a1

ThresholdAttempts(T, adaptive) ==
    LET a0 == <<T>>
        a1 == IF adaptive /\ T > FALLBACK_HIGH THEN Append(a0, FALLBACK_HIGH) ELSE a0
    IN  IF adaptive /\ T > FALLBACK_LOW THEN Append(a1, FALLBACK_LOW) ELSE a1

\* keywords = [w.strip() for w in query_lower.split() if len(w.strip()) > 3]
Keywords(query) ==
    SelectSeq(SplitWs(Lower(query), "", <<>>), LAMBDA w : Len(w) > KEYWORD_MIN_LEN)

InitialLimit(limit) == Max(MIN_FETCH, limit * 2)

\* record.get("file_path") or record.get("file_name", "Unknown")
FilePathOf(r) == IF Truthy(r.file_path) THEN r.file_path ELSE r.file_name

IndexOf(aggs, fp) ==
    IF \E i \in 1..Len(aggs) : aggs[i].file_path = fp
    THEN CHOOSE i \in 1..Len(aggs) : aggs[i].file_path = fp
    ELSE 0

HasKey(aggs, fp) == IndexOf(aggs, fp) # 0

\* Variant: `if content is None: continue`
SkipRecordNoneOnly(r) == r.content = NULL

\* `if not content: continue`
SkipRecord(r) == ~Truthy(r.content)

\* One iteration of `for record in records`
AggregateStep(st, r) ==
    LET fp == FilePathOf(r)
        projects == IF r.project_name # "unknown"
                    THEN st.project_matches \cup {r.project_name}
                    ELSE st.project_matches
        fresh == [file_path |-> fp, chunks |-> <<>>,
                  max_similarity |-> r.similarity,
                  max_boosted_similarity |-> r.boosted_similarity,
                  chunk_count |-> 0, source_type |-> r.source_type,
                  project_name |-> r.project_name]
        aggs0 == IF HasKey(st.file_aggregates, fp) THEN st.file_aggregates
                 ELSE Append(st.file_aggregates, fresh)
        k == IndexOf(aggs0, fp)
        agg == aggs0[k]
        upd == [agg EXCEPT
                  !.chunk_count = @ + 1,
                  !.max_similarity = Max(@, r.similarity),
                  !.max_boosted_similarity = Max(@, r.boosted_similarity),
                  !.chunks = Append(@, [content |-> r.content,
                                        start_offset |-> r.start_offset,
                                        similarity |-> r.similarity,
                                        boosted_similarity |-> r.boosted_similarity])]
    IN  IF SkipRecord(r)
        THEN [file_aggregates |-> st.file_aggregates, project_matches |-> projects]
        ELSE [file_aggregates |-> [aggs0 EXCEPT ![k] = upd],
              project_matches |-> projects]

RECURSIVE AggregateFrom(_, _)
\* `for record in records`; each iteration works on the value the one before
\* it left (rest, next are bound to values, not to pending expressions)
AggregateFrom(records, st) ==
    IF Len(records) = 0 THEN st
    ELSE CHOOSE out \in {AggregateFrom(rest, next) :
                            rest \in {Tail(records)},
                            next \in {AggregateStep(st, Head(records))}} : TRUE

AggregateRecords(records) ==
    AggregateFrom(records, [file_aggregates |-> <<>>, project_matches |-> {}])

\* Variant: the guard does not look at the number of aggregates
GraphGuardNoLimit(enable, project_matches, aggs, limit) ==
    enable /\ Cardinality(project_matches) > 1

\* The condition of the multi-hop traversal
GraphGuard(enable, project_matches, aggs, limit) ==
    enable /\ Cardinality(project_matches) > 1 /\ Len(aggs) < limit

TopFilePaths(aggs) ==
    LET sorted == StableSortDesc(aggs, [i \in 1..Len(aggs) |-> aggs[i].max_boosted_similarity])
        top == Prefix(sorted, SEED_COUNT)
    IN  [i \in 1..Len(top) |-> top[i].file_path]

\* Variant: the penalty without the floor
GraphScoreNoFloor(threshold, ghops) == threshold - ghops * HOP_PENALTY

GraphScore(threshold, ghops) ==
    Max(GRAPH_FLOOR, threshold - ghops * HOP_PENALTY)

\* Variant: `if chunks`, the contents that are kept
HasGraphContentsKept(gcontents) == Len(SelectSeq(gcontents, Truthy)) > 0

\* `if gcontents`
HasGraphContents(gcontents) == Len(gcontents) > 0

\* Variant: len(gcontents)
GraphChunkCountAll(gcontents) == Len(gcontents)

\* len([c for c in gcontents if c])
GraphChunkCount(gcontents) == Len(SelectSeq(gcontents, Truthy))

\* One iteration of `for grec in graph_records`
GraphStep(aggs, grec, min_threshold) ==
    LET graph_score == GraphScore(min_threshold, grec.hops)
        kept == SelectSeq(grec.contents, Truthy)
        new == [file_path |-> grec.file_path,
                chunks |-> [i \in 1..Len(kept) |->
                              [content |-> kept[i], start_offset |-> 0,
                               similarity |-> graph_score,
                               boosted_similarity |-> graph_score]],
                max_similarity |-> graph_score,
                max_boosted_similarity |-> graph_score,
                chunk_count |-> GraphChunkCount(grec.contents),
                source_type |-> "file",
                project_name |-> grec.project_name,
                graph_related |-> TRUE,
                hops |-> grec.hops]
    IN  IF HasKey(aggs, grec.file_path) THEN aggs
        ELSE IF HasGraphContents(grec.contents) THEN Append(aggs, new)
        ELSE aggs

RECURSIVE ExpandFrom(_, _, _)
ExpandFrom(aggs, graph_records, min_threshold) ==
    IF Len(graph_records) = 0 THEN aggs
    ELSE ExpandFrom(GraphStep(aggs, Head(graph_records), min_threshold),
                    Tail(graph_records), min_threshold)

\* Variant: the boost counts extra chunks only, max(0, chunk_count - 1)
FinalScoreExtraChunksOnly(agg) ==
    agg.max_boosted_similarity + Max(0, agg.chunk_count - 1) * DIVERSITY_BOOST

\* final_score = max_boosted_similarity + (chunk_count - 1) * 0.03
FinalScore(agg) ==
    agg.max_boosted_similarity + (agg.chunk_count - 1) * DIVERSITY_BOOST

\* Variant: the chunks are sorted by their raw similarity
SortChunksBySimilarity(chunks) ==
    StableSortDesc(chunks, [i \in 1..Len(chunks) |-> chunks[i].similarity])

\* agg["chunks"].sort(key=boosted_similarity, reverse=True)
SortChunks(chunks) ==
    StableSortDesc(chunks, [i \in 1..Len(chunks) |-> chunks[i].boosted_similarity])

\* One iteration of `for file_path, agg in file_aggregates.items()`
ScoreAggregate(agg) ==
    [f \in DOMAIN agg \cup {"final_score"} |->
        IF f = "final_score" THEN FinalScore(agg)
        ELSE IF f = "chunks" THEN SortChunks(agg.chunks)
        ELSE agg[f]]

ScoreAll(aggs) == [i \in 1..Len(aggs) |-> ScoreAggregate(aggs[i])]

\* Variant: the ranking is not cut to the limit
SortedFilesUncut(aggs, limit) ==
    StableSortDesc(aggs, [i \in 1..Len(aggs) |-> aggs[i].final_score])

\* Variant: the cut is taken before the sort
SortedFilesCutFirst(aggs, limit) ==
    LET cut == Prefix(aggs, limit)
    IN  StableSortDesc(cut, [i \in 1..Len(cut) |-> cut[i].final_score])

\* sorted(file_aggregates.items(), key=final_score, reverse=True)[:LIMIT]
SortedFiles(aggs, limit) ==
    Prefix(StableSortDesc(aggs, [i \in 1..Len(aggs) |-> aggs[i].final_score]), limit)

Quality(score) ==
    IF score >= EXCELLENT THEN "Excellent"
    ELSE IF score >= HIGH THEN "High"
    ELSE IF score >= GOOD THEN "Good" ELSE "Moderate"

RECURSIVE ChunkParts(_, _)
ChunkParts(top_chunks, i) ==
    IF i > Len(top_chunks) THEN <<>>
    ELSE (IF i > 1 THEN <<[part |-> "elision"]>> ELSE <<>>)
         \o <<[part |-> "chunk", content |-> top_chunks[i].content]>>
         \o ChunkParts(top_chunks, i + 1)

\* The parts one aggregate appends to context_parts
FormatBlock(agg) ==
    LET top_chunks == Prefix(agg.chunks, TOP_CHUNKS)
        source_label == IF agg.source_type = "memory" THEN "Memory" ELSE "File"
        project_label == IF agg.project_name # "unknown" THEN agg.project_name ELSE ""
    IN  IF Len(top_chunks) = 0 THEN <<>>
        ELSE <<[part |-> "header", source_label |-> source_label,
                file_path |-> agg.file_path, project_label |-> project_label,
                quality |-> Quality(agg.final_score),
                final_score |-> agg.final_score,
                chunk_count |-> agg.chunk_count]>>
             \o ChunkParts(top_chunks, 1)
             \o <<[part |-> "end"]>>

\* context_parts after `for file_path, agg in sorted_files`; the returned
\* string is their concatenation, empty exactly when there are no parts
RECURSIVE FormatContext(_)
FormatContext(sorted_files) ==
    IF Len(sorted_files) = 0 THEN <<>>
    ELSE FormatBlock(Head(sorted_files)) \o FormatContext(Tail(sorted_files))

\* ------------------------------------------------------------- the state
VARIABLES
    valves,             \* self.valves, read only
    query,              \* the query text
    store,              \* the nodes of the graph store
    pc,                 \* where the coroutine stands
    embed_response,     \* what the embedding endpoint did, "none" before the call
    embedding,          \* value returned by _get_embedding
    threshold_attempts,
    attempt_idx,        \* index into threshold_attempts, from 1
    min_threshold,
    keywords,
    records,
    file_aggregates,    \* insertion-ordered dict, as a sequence
    project_matches,
    sorted_files,
    bundle,             \* context_parts of the returned string
    result,             \* "none", "returned" or "raised"
    outer_except,       \* exception caught at `except Exception as e`
    graph_except,       \* TRUE once `except Exception as graph_err` ran
    graph_records,      \* rows the traversal returned
    parked,             \* locals of a second invocation suspended at an await
    pipe,               \* the call of pipe() that runs the retrieval, if any
    store_calls         \* the session.run calls issued, in order

vars == <<valves, query, store, pc, embed_response, embedding, threshold_attempts, attempt_idx,
          min_threshold, keywords, records, file_aggregates, project_matches,
          sorted_files, bundle, result, outer_except, graph_except,
          graph_records, parked, pipe, store_calls>>

\* No second invocation
NoTask == [pc |-> "absent"]
NoRequest == [pc |-> "absent"]

ThresholdChoices == {300, 400, 550, 750}
DepthChoices == {1, 2}
Queries == {"Auth auth db", "hi all"}

Configs ==
    [SEMANTIC_SEARCH_LIMIT : 0..MaxLimit,
     MIN_SIMILARITY_THRESHOLD : ThresholdChoices,
     ENABLE_ADAPTIVE_THRESHOLD : BOOLEAN,
     ENABLE_GRAPH_TRAVERSAL : BOOLEAN,
     GRAPH_TRAVERSAL_DEPTH : DepthChoices,
     ENABLE_HYBRID_SEARCH : BOOLEAN]

\* The locals of an invocation that has not run yet
InitLocals ==
    /\ query \in Queries
    /\ pc = "start"
    /\ embed_response = "none"
    /\ embedding = NULL
    /\ threshold_attempts = <<>>
    /\ attempt_idx = 0
    /\ min_threshold = 0
    /\ keywords = <<>>
    /\ records = <<>>
    /\ file_aggregates = <<>>
    /\ project_matches = {}
    /\ sorted_files = <<>>
    /\ bundle = <<>>
    /\ result = "none"
    /\ outer_except = "none"
    /\ graph_except = FALSE
    /\ graph_records = <<>>
    /\ store_calls = <<>>

Init ==
    /\ valves \in Configs
    /\ store \in Stores
    /\ parked = NoTask
    /\ pipe = NoRequest
    /\ InitLocals

\* `return <string>` inside the try block
Return(parts) ==
    /\ pc' = "done"
    /\ result' = "returned"
    /\ bundle' = parts
    /\ UNCHANGED outer_except

\* Variant: the handler lets the exception go on to the caller
OuterExceptReraises(e) ==
    /\ pc' = "done"
    /\ result' = "raised"
    /\ bundle' = <<>>
    /\ outer_except' = e

\* except Exception as e: ... return ""
OuterExcept(e) ==
    /\ pc' = "done"
    /\ result' = "returned"
    /\ bundle' = <<>>
    /\ outer_except' = e

\* Lines 966-1016: final scores, ranking, truncation, formatting, return
RankAndReturn(aggs) ==
    /\ file_aggregates' = ScoreAll(aggs)
    /\ sorted_files' = SortedFiles(file_aggregates', valves.SEMANTIC_SEARCH_LIMIT)
    /\ Return(FormatContext(sorted_files'))

\* Lines 648-690: import, embedding call, guard, attempt list and keywords
Start ==
    /\ pc = "start"
    /\ \E import_ok \in BOOLEAN, resp \in EmbedResponses :
         IF ~import_ok
         THEN /\ OuterExcept("ImportError")
              /\ UNCHANGED <<embed_response, embedding, threshold_attempts, attempt_idx,
                             min_threshold, keywords>>
         ELSE /\ embed_response' = resp
              /\ embedding' = GetEmbedding(resp)
              /\ IF EmbeddingMissing(embedding')
                 THEN /\ Return(<<>>)
                      /\ UNCHANGED <<threshold_attempts, attempt_idx,
                                     min_threshold, keywords>>
                 ELSE /\ threshold_attempts' =
                            ThresholdAttempts(valves.MIN_SIMILARITY_THRESHOLD,
                                              valves.ENABLE_ADAPTIVE_THRESHOLD)
                      /\ min_threshold' = threshold_attempts'[1]
                      /\ keywords' = Keywords(query)
                      /\ attempt_idx' = 1
                      /\ pc' = "query"
                      /\ UNCHANGED <<result, bundle, outer_except>>
    /\ UNCHANGED <<valves, query, store, records, file_aggregates,
                   project_matches, sorted_files, graph_except, graph_records,
                   parked, pipe, store_calls>>

\* One session.run call as the store sees it: the cutoff it was given, whether
\* it raised, and the number of rows it returned
SimilarityCall(threshold, raised, rows) ==
    [kind |-> "similarity", threshold |-> threshold, raised |-> raised,
     rows |-> rows]

TraversalCall(raised, rows) ==
    [kind |-> "traversal", threshold |-> min_threshold, raised |-> raised,
     rows |-> rows]

\* Variant: the traversal is reached with only the first record aggregated
AggregateAndGuardFirstRecord(recs) ==
    LET st == AggregateRecords(recs)
        early == AggregateRecords(Prefix(recs, 1))
    IN  /\ project_matches' = st.project_matches
        /\ IF /\ GraphGuard(valves.ENABLE_GRAPH_TRAVERSAL, st.project_matches,
                            early.file_aggregates, valves.SEMANTIC_SEARCH_LIMIT)
              /\ Len(TopFilePaths(early.file_aggregates)) > 0
           THEN /\ pc' = "traverse"
                /\ file_aggregates' = early.file_aggregates
                /\ UNCHANGED <<sorted_files, result, bundle, outer_except>>
           ELSE RankAndReturn(st.file_aggregates)

\* Lines 811-881: aggregation of the records and the traversal guard; the
\* coroutine runs on to the traversal call, or to the return when the guard
\* is false
AggregateAndGuard(recs) ==
    LET st == AggregateRecords(recs)
    IN  /\ project_matches' = st.project_matches
        /\ IF /\ GraphGuard(valves.ENABLE_GRAPH_TRAVERSAL, st.project_matches,
                            st.file_aggregates, valves.SEMANTIC_SEARCH_LIMIT)
              /\ Len(TopFilePaths(st.file_aggregates)) > 0
           THEN /\ pc' = "traverse"
                /\ file_aggregates' = st.file_aggregates
                /\ UNCHANGED <<sorted_files, result, bundle, outer_except>>
           ELSE RankAndReturn(st.file_aggregates)

\* Variant: the loop has no break, it goes on after records were found
AfterAttemptNoBreak(recs) ==
    IF attempt_idx < Len(threshold_attempts)
    THEN /\ pc' = "query"
         /\ attempt_idx' = attempt_idx + 1
         /\ UNCHANGED <<result, bundle, outer_except, file_aggregates,
                        project_matches, sorted_files>>
    ELSE IF Len(recs) > 0
         THEN /\ AggregateAndGuard(recs)
              /\ UNCHANGED attempt_idx
         ELSE /\ OuterExcept("NameError")
              /\ UNCHANGED <<attempt_idx, file_aggregates, project_matches,
                             sorted_files>>

\* Lines 795-881: what the coroutine does with the records of one attempt.  The
\* diagnostics of the last empty attempt read user_message, which is not a
\* name of this scope: NameError, caught by the outer handler.
AfterAttempt(recs) ==
    IF Len(recs) > 0
    THEN /\ AggregateAndGuard(recs)
         /\ UNCHANGED attempt_idx
    ELSE IF attempt_idx < Len(threshold_attempts)
         THEN /\ pc' = "query"
              /\ attempt_idx' = attempt_idx + 1
              /\ UNCHANGED <<result, bundle, outer_except, file_aggregates,
                             project_matches, sorted_files>>
         ELSE /\ OuterExcept("NameError")
              /\ UNCHANGED <<attempt_idx, file_aggregates, project_matches,
                             sorted_files>>

\* Variant: a try/except inside the loop moves on to the next threshold
AttemptRaisesContinue ==
    IF attempt_idx < Len(threshold_attempts)
    THEN /\ pc' = "query"
         /\ attempt_idx' = attempt_idx + 1
         /\ UNCHANGED <<result, bundle, outer_except>>
    ELSE /\ OuterExcept("StoreError")
         /\ UNCHANGED attempt_idx

\* A raise of session.run / result.data() in the retry loop: nothing in the
\* loop catches it
AttemptRaises ==
    /\ OuterExcept("StoreError")
    /\ UNCHANGED attempt_idx

\* Lines 780-881: one iteration of the retry loop, the store answering, up to
\* the next store call
Query ==
    /\ pc = "query"
    /\ LET threshold == threshold_attempts[attempt_idx]
       IN  /\ min_threshold' = threshold
           /\ \E recs \in SimilarityQuery(store, threshold,
                             valves.ENABLE_HYBRID_SEARCH, keywords,
                             InitialLimit(valves.SEMANTIC_SEARCH_LIMIT)) :
                /\ records' = recs
                /\ store_calls' = Append(store_calls,
                                         SimilarityCall(threshold, FALSE, Len(recs)))
                /\ AfterAttempt(recs)
    /\ UNCHANGED <<valves, query, store, embed_response, embedding,
                   threshold_attempts, keywords, graph_except, graph_records,
                   parked, pipe>>

\* Lines 780-791: one iteration of the retry loop, the store call raising
QueryFails ==
    /\ pc = "query"
    /\ LET threshold == threshold_attempts[attempt_idx]
       IN  /\ min_threshold' = threshold
           /\ store_calls' = Append(store_calls, SimilarityCall(threshold, TRUE, 0))
           /\ AttemptRaises
    /\ UNCHANGED <<valves, query, store, embed_response, embedding,
                   threshold_attempts, keywords, records, file_aggregates,
                   project_matches, sorted_files, graph_except, graph_records,
                   parked, pipe>>

\* `for grec in graph_records` over the rows the traversal returned
Expand(aggs, grecs) == ExpandFrom(aggs, grecs, min_threshold)

\* Variant: the handler starts over from an empty aggregate set
GraphExceptClears(aggs) == <<>>

\* except Exception as graph_err: the aggregates stay as they are
GraphExcept(aggs) == aggs

Seeds == {TopFilePaths(file_aggregates)[i] :
            i \in 1..Len(TopFilePaths(file_aggregates))}

\* Lines 922-1016: the traversal query answers, its rows are merged, and the
\* coroutine runs on to the return
Traverse ==
    /\ pc = "traverse"
    /\ \E grecs \in GraphQuery(Seeds, valves.GRAPH_TRAVERSAL_DEPTH) :
         /\ graph_records' = grecs
         /\ RankAndReturn(Expand(file_aggregates, grecs))
         /\ store_calls' = Append(store_calls, TraversalCall(FALSE, Len(grecs)))
    /\ UNCHANGED <<valves, query, store, embed_response, embedding,
                   threshold_attempts, attempt_idx, min_threshold, keywords,
                   records, project_matches, graph_except, parked, pipe>>

\* Lines 922-928 and 963-1016: the traversal query raises, the inner handler
\* runs, and the coroutine runs on to the return
TraverseFails ==
    /\ pc = "traverse"
    /\ RankAndReturn(GraphExcept(file_aggregates))
    /\ graph_except' = TRUE
    /\ store_calls' = Append(store_calls, TraversalCall(TRUE, 0))
    /\ UNCHANGED <<valves, query, store, embed_response, embedding,
                   threshold_attempts, attempt_idx, min_threshold, keywords,
                   records, project_matches, graph_records, parked,
                   pipe>>

Next ==
    \/ Start
    \/ Query
    \/ QueryFails
    \/ Traverse
    \/ TraverseFails

Spec == Init /\ [][Next]_vars

\* The retrieval against a store that holds two nodes, or more nodes than
\* the similarity query fetches
FetchCapStores == LargeStores \cup {S \in Stores : Cardinality(S) = 2}

InitFetchCap ==
    /\ valves \in Configs
    /\ store \in FetchCapStores
    /\ parked = NoTask
    /\ pipe = NoRequest
    /\ InitLocals

SpecFetchCap == InitFetchCap /\ [][Next]_vars

\* The retrieval against a store that holds three chunks of one file, the
\* third with the lowest similarity and a keyword in its text, and at most
\* one more node
ThirdChunk ==
    [kind |-> "file_chunk", path |-> "/w/A/auth", name |-> "auth",
     content |-> "auth z", sim |-> 590, start_offset |-> 18]

ChunkStores ==
    {S \cup {ThirdChunk} :
        S \in {T \in Stores :
                  /\ {n \in T : n.path = "/w/A/auth"}
                        = {n \in AllNodes : n.path = "/w/A/auth"}
                  /\ Cardinality(T) <= 3}}

InitChunks ==
    /\ valves \in Configs
    /\ store \in ChunkStores
    /\ parked = NoTask
    /\ pipe = NoRequest
    /\ InitLocals

SpecChunks == InitChunks /\ [][Next]_vars

\* ------------------------------------------- two invocations on one Pipe
\* asyncio runs one coroutine at a time and changes coroutine at an await.
\* The variables above are the locals of the running invocation; parked holds
\* the locals of the other one.  self.valves and the store belong to both.
Frame ==
    [query |-> query,
     pc |-> pc,
     embed_response |-> embed_response,
     embedding |-> embedding,
     threshold_attempts |-> threshold_attempts,
     attempt_idx |-> attempt_idx,
     min_threshold |-> min_threshold,
     keywords |-> keywords,
     records |-> records,
     file_aggregates |-> file_aggregates,
     project_matches |-> project_matches,
     sorted_files |-> sorted_files,
     bundle |-> bundle,
     result |-> result,
     outer_except |-> outer_except,
     graph_except |-> graph_except,
     graph_records |-> graph_records,
     store_calls |-> store_calls]

NewFrame(q) ==
    [query |-> q, pc |-> "start", embed_response |-> "none", embedding |-> NULL,
     threshold_attempts |-> <<>>, attempt_idx |-> 0, min_threshold |-> 0,
     keywords |-> <<>>, records |-> <<>>, file_aggregates |-> <<>>,
     project_matches |-> {}, sorted_files |-> <<>>, bundle |-> <<>>,
     result |-> "none", outer_except |-> "none", graph_except |-> FALSE,
     graph_records |-> <<>>, store_calls |-> <<>>]

\* Variant: file_aggregates is an attribute of the Pipe, not a local
SwitchSharingAggregates ==
    /\ parked.pc \notin {"absent", "done"}
    /\ parked' = Frame
    /\ query' = parked.query
    /\ pc' = parked.pc
    /\ embed_response' = parked.embed_response
    /\ embedding' = parked.embedding
    /\ threshold_attempts' = parked.threshold_attempts
    /\ attempt_idx' = parked.attempt_idx
    /\ min_threshold' = parked.min_threshold
    /\ keywords' = parked.keywords
    /\ records' = parked.records
    /\ project_matches' = parked.project_matches
    /\ sorted_files' = parked.sorted_files
    /\ bundle' = parked.bundle
    /\ result' = parked.result
    /\ outer_except' = parked.outer_except
    /\ graph_except' = parked.graph_except
    /\ graph_records' = parked.graph_records
    /\ store_calls' = parked.store_calls
    /\ UNCHANGED <<valves, store, file_aggregates, pipe>>

\* The running coroutine is suspended at its await, the other one resumes
Switch ==
    /\ parked.pc \notin {"absent", "done"}
    /\ parked' = Frame
    /\ query' = parked.query
    /\ pc' = parked.pc
    /\ embed_response' = parked.embed_response
    /\ embedding' = parked.embedding
    /\ threshold_attempts' = parked.threshold_attempts
    /\ attempt_idx' = parked.attempt_idx
    /\ min_threshold' = parked.min_threshold
    /\ keywords' = parked.keywords
    /\ records' = parked.records
    /\ file_aggregates' = parked.file_aggregates
    /\ project_matches' = parked.project_matches
    /\ sorted_files' = parked.sorted_files
    /\ bundle' = parked.bundle
    /\ result' = parked.result
    /\ outer_except' = parked.outer_except
    /\ graph_except' = parked.graph_except
    /\ graph_records' = parked.graph_records
    /\ store_calls' = parked.store_calls
    /\ UNCHANGED <<valves, store, pipe>>

ConcurrentConfigs ==
    {v \in Configs : /\ v.SEMANTIC_SEARCH_LIMIT = 2
                     /\ v.ENABLE_ADAPTIVE_THRESHOLD
                     /\ v.ENABLE_GRAPH_TRAVERSAL
                     /\ v.ENABLE_HYBRID_SEARCH}

InitConcurrent ==
    /\ valves \in ConcurrentConfigs
    /\ store \in {S \in Stores : Cardinality(S) = 2}
    /\ parked \in {NewFrame(q) : q \in Queries}
    /\ pipe = NoRequest
    /\ InitLocals

NextConcurrent ==
    \/ Start
    \/ Query
    \/ QueryFails
    \/ Traverse
    \/ TraverseFails
    \/ Switch

SpecConcurrent == InitConcurrent /\ [][NextConcurrent]_vars

\* ------------------------------------------------------------------ pipe()
\* pipe.events is what the caller, the event emitter and the two helpers see
\* of one call of pipe(), in order.
StartsWith(s, prefix) ==
    Len(s) >= Len(prefix) /\ SubSeq(s, 1, Len(prefix)) = prefix

\* messages[-1].get("content", "") if messages else "NO_MESSAGE"
UserMessage(messages) ==
    IF Len(messages) = 0 THEN "NO_MESSAGE"
    ELSE LET last == messages[Len(messages)]
         IN  IF "content" \in DOMAIN last THEN last.content ELSE ""

\* is_auto_generated = any([...])
IsAutoGenerated(user_message) ==
    \/ /\ Contains(user_message, "Generate a concise")
       /\ Contains(user_message, "title")
    \/ Contains(user_message, "Generate 1-3 broad tags")
    \/ Contains(user_message, "Suggest 3-5 relevant follow-up")
    \/ StartsWith(user_message, "### Task:")

Msg(content) == [role |-> "user", content |-> content]

\* body["messages"] of the requests considered
PipeMessages == {
    <<>>,
    <<Msg("hi all")>>,
    <<Msg("Auth auth db")>>,
    <<[role |-> "user"]>>,
    <<Msg("title only")>>,
    <<Msg("### Task: tags"), Msg("hi all")>>,
    <<Msg("hi all"), Msg("### Task: tags")>>,
    <<Msg("Generate a concise title")>>,
    <<Msg("Generate 1-3 broad tags")>>,
    <<Msg("Suggest 3-5 relevant follow-up")>> }

\* What _call_llm yields: content chunks, and an error text when the status
\* is not 200 or the request raises (its own handler yields the text)
LlmResponses ==
    {<<>>, <<"r1">>, <<"r1", "r2">>, <<"**Error:**">>, <<"r1", "**Error:**">>}

StatusEvent(description, done) ==
    [type |-> "status", description |-> description, done |-> done]

\* if __event_emitter__: await __event_emitter__({...})
Emit(events, description, done) ==
    IF pipe.emitter THEN Append(events, StatusEvent(description, done))
    ELSE events

\* Lines 583-633: the processing status, the prompt, and the call of _call_llm
CallLlm(events, relevant_context) ==
    \E response \in LlmResponses :
        pipe' = [pipe EXCEPT
                    !.pc = "streaming",
                    !.events = Append(Emit(events, "processing", FALSE),
                                      [type |-> "call", target |-> "_call_llm",
                                       with_context |-> relevant_context # <<>>]),
                    !.llm_left = response]

\* Lines 490-536: from the call of pipe() to its return, or to the await of
\* _get_relevant_context, or to the first chunk of _call_llm
PipeBegin ==
    /\ pipe.pc = "called"
    /\ LET user_message == UserMessage(pipe.messages)
       IN  IF IsAutoGenerated(user_message)
           THEN /\ pipe' = [pipe EXCEPT !.pc = "returned"]
                /\ UNCHANGED <<pc, query>>
           ELSE IF Len(pipe.messages) = 0
           THEN /\ pipe' = [pipe EXCEPT
                              !.pc = "returned",
                              !.events = Append(pipe.events,
                                  [type |-> "yield",
                                   chunk |-> "Error: No messages provided"])]
                /\ UNCHANGED <<pc, query>>
           ELSE LET events == Emit(pipe.events, "retrieving", FALSE)
                IN  IF valves.SEMANTIC_SEARCH_ENABLED
                    THEN /\ pipe' = [pipe EXCEPT
                                       !.pc = "retrieving",
                                       !.events = Append(events,
                                           [type |-> "call",
                                            target |-> "_get_relevant_context"])]
                         /\ pc' = "start"
                         /\ query' = user_message
                    ELSE /\ CallLlm(events, <<>>)
                         /\ UNCHANGED <<pc, query>>
    /\ UNCHANGED <<valves, store, embed_response, embedding, threshold_attempts,
                   attempt_idx, min_threshold, keywords, records,
                   file_aggregates, project_matches, sorted_files, bundle,
                   result, outer_except, graph_except, graph_records, parked,
                   store_calls>>

\* Variant: without context pipe() returns instead of calling the LLM
PipeResumeNeedsContext ==
    /\ pipe.pc = "retrieving"
    /\ pc = "done"
    /\ IF result = "returned" /\ bundle # <<>>
       THEN CallLlm(Emit(pipe.events, "found", FALSE), bundle)
       ELSE pipe' = [pipe EXCEPT !.pc = "returned",
                                 !.events = Emit(pipe.events, "none", FALSE)]
    /\ UNCHANGED <<valves, query, store, pc, embed_response, embedding,
                   threshold_attempts, attempt_idx, min_threshold, keywords,
                   records, file_aggregates, project_matches, sorted_files,
                   bundle, result, outer_except, graph_except, graph_records,
                   parked, store_calls>>

\* Lines 538-633: _get_relevant_context has returned (or raised into the
\* handler of line 570); the status of the search, then the call of the LLM
PipeResume ==
    /\ pipe.pc = "retrieving"
    /\ pc = "done"
    /\ IF result = "raised"
       THEN CallLlm(Emit(pipe.events, "failed", FALSE), <<>>)
       ELSE IF bundle # <<>>
       THEN CallLlm(Emit(pipe.events, "found", FALSE), bundle)
       ELSE CallLlm(Emit(pipe.events, "none", FALSE), <<>>)
    /\ UNCHANGED <<valves, query, store, pc, embed_response, embedding,
                   threshold_attempts, attempt_idx, min_threshold, keywords,
                   records, file_aggregates, project_matches, sorted_files,
                   bundle, result, outer_except, graph_except, graph_records,
                   parked, store_calls>>

\* Lines 633-634: async for chunk in self._call_llm(...): yield chunk
PipeYield ==
    /\ pipe.pc = "streaming"
    /\ pipe.llm_left # <<>>
    /\ pipe' = [pipe EXCEPT
                   !.events = Append(pipe.events,
                       [type |-> "yield", chunk |-> Head(pipe.llm_left)]),
                   !.llm_left = Tail(pipe.llm_left)]
    /\ UNCHANGED <<valves, query, store, pc, embed_response, embedding,
                   threshold_attempts, attempt_idx, min_threshold, keywords,
                   records, file_aggregates, project_matches, sorted_files,
                   bundle, result, outer_except, graph_except, graph_records,
                   parked, store_calls>>

\* Lines 636-644: the stream is exhausted; the final status
PipeFinish ==
    /\ pipe.pc = "streaming"
    /\ pipe.llm_left = <<>>
    /\ pipe' = [pipe EXCEPT !.pc = "returned",
                            !.events = Emit(pipe.events, "complete", TRUE)]
    /\ UNCHANGED <<valves, query, store, pc, embed_response, embedding,
                   threshold_attempts, attempt_idx, min_threshold, keywords,
                   records, file_aggregates, project_matches, sorted_files,
                   bundle, result, outer_except, graph_except, graph_records,
                   parked, store_calls>>

PipeConfigs ==
    [SEMANTIC_SEARCH_ENABLED : BOOLEAN,
     SEMANTIC_SEARCH_LIMIT : {2},
     MIN_SIMILARITY_THRESHOLD : {FALLBACK_LOW, 550},
     ENABLE_ADAPTIVE_THRESHOLD : {TRUE},
     ENABLE_GRAPH_TRAVERSAL : {TRUE},
     GRAPH_TRAVERSAL_DEPTH : {1},
     ENABLE_HYBRID_SEARCH : {TRUE}]

\* A call of pipe() that has not run yet; the retrieval has no locals before
\* it is called
InitPipe ==
    /\ valves \in PipeConfigs
    /\ store \in {S \in Stores : Cardinality(S) \in {0, 2}}
    /\ parked = NoTask
    /\ pipe \in [pc : {"called"}, messages : PipeMessages, emitter : BOOLEAN,
                 events : {<<>>}, llm_left : {<<>>}]
    /\ query = NULL
    /\ pc = "idle"
    /\ embed_response = "none"
    /\ embedding = NULL
    /\ threshold_attempts = <<>>
    /\ attempt_idx = 0
    /\ min_threshold = 0
    /\ keywords = <<>>
    /\ records = <<>>
    /\ file_aggregates = <<>>
    /\ project_matches = {}
    /\ sorted_files = <<>>
    /\ bundle = <<>>
    /\ result = "none"
    /\ outer_except = "none"
    /\ graph_except = FALSE
    /\ graph_records = <<>>
    /\ store_calls = <<>>

NextPipe ==
    \/ PipeBegin
    \/ Start
    \/ Query
    \/ QueryFails
    \/ Traverse
    \/ TraverseFails
    \/ PipeResume
    \/ PipeYield
    \/ PipeFinish

SpecPipe == InitPipe /\ [][NextPipe]_vars

\* ------------------------------------------------------------ properties
SimilarityCalls == SelectSeq(store_calls, LAMBDA c : c.kind = "similarity")
TraversalCalls == SelectSeq(store_calls, LAMBDA c : c.kind = "traversal")

Headers(parts) == SelectSeq(parts, LAMBDA p : p.part = "header")
BlockCount(parts) == Len(Headers(parts))

IsGraphRelated(agg) == "graph_related" \in DOMAIN agg /\ agg.graph_related

GraphAggregates(aggs) == {i \in 1..Len(aggs) : IsGraphRelated(aggs[i])}

\* The aggregates the direct hits alone give
DirectAggregates == AggregateRecords(records).file_aggregates

Returned == pc = "done" /\ result = "returned"

\* C1: whatever the embedding client and the store do, the retrieval ends by
\* returning a string (a bundle or the empty string); no exception reaches
\* the caller.
\* Termination is stated by a variant: it is 0 exactly when the coroutine has
\* ended, every step lowers it, and a step is possible until it has ended.
StepsLeft ==
    CASE pc = "start" -> 8
      [] pc = "query" -> 2 + Len(threshold_attempts) - attempt_idx
      [] pc = "traverse" -> 1
      [] pc = "done" -> 0

C1_AlwaysReturnsString ==
    /\ [](/\ result # "raised"
          /\ pc = "done" => result = "returned"
          /\ pc = "start" => ENABLED Start
          /\ pc = "query" => ENABLED QueryFails
          /\ pc = "traverse" => ENABLED TraverseFails
          /\ pc \in {"start", "query", "traverse", "done"}
          /\ StepsLeft >= 0)
    /\ [][StepsLeft' < StepsLeft]_vars

C1_Witness ==
    /\ Returned
    /\ outer_except = "StoreError"
    /\ Len(store_calls) > 1

\* C2: the returned bundle holds at most SEMANTIC_SEARCH_LIMIT formatted
\* blocks, also when graph expansion added aggregates after the
\* `len(file_aggregates) < limit` test.
C2_BundleWithinLimit ==
    /\ Len(sorted_files) <= valves.SEMANTIC_SEARCH_LIMIT
    /\ BlockCount(bundle) <= valves.SEMANTIC_SEARCH_LIMIT

C2_Witness ==
    /\ Returned
    /\ GraphAggregates(file_aggregates) # {}
    /\ Len(file_aggregates) > valves.SEMANTIC_SEARCH_LIMIT
    /\ BlockCount(bundle) = valves.SEMANTIC_SEARCH_LIMIT

\* C3: similarity queries go out one at a time in the order of
\* threshold_attempts; a lower threshold is queried only after every higher
\* one returned no candidate; once an attempt returns a candidate no further
\* similarity query is issued and the aggregates and the bundle are built
\* from that attempt's candidates.
C3_AttemptsInOrder ==
    LET sim == SimilarityCalls
        n == Len(sim)
    IN  /\ n <= Len(threshold_attempts)
        /\ \A i \in 1..n : sim[i].threshold = threshold_attempts[i]
        /\ \A i \in 1..(n - 1) : ~sim[i].raised /\ sim[i].rows = 0
        /\ pc = "query" => n = attempt_idx - 1
        /\ Len(records) > 0 =>
             /\ ~sim[n].raised /\ sim[n].rows = Len(records)
             /\ min_threshold = sim[n].threshold
             /\ records \in SimilarityQuery(store, sim[n].threshold,
                                valves.ENABLE_HYBRID_SEARCH, keywords,
                                InitialLimit(valves.SEMANTIC_SEARCH_LIMIT))
             /\ \A i \in 1..Len(file_aggregates) :
                  \/ IsGraphRelated(file_aggregates[i])
                  \/ \E k \in 1..Len(records) :
                       FilePathOf(records[k]) = file_aggregates[i].file_path
             /\ \A k \in 1..Len(records) :
                  records[k].similarity >= sim[n].threshold

C3_Witness ==
    /\ Returned
    /\ Len(SimilarityCalls) = 3
    /\ SimilarityCalls[1].rows = 0 /\ SimilarityCalls[1].threshold = 550
    /\ SimilarityCalls[2].rows = 0 /\ SimilarityCalls[2].threshold = 400
    /\ SimilarityCalls[3].rows = 2 /\ SimilarityCalls[3].threshold = 300
    /\ BlockCount(bundle) = 2

FailedResponses == {"no_key", "null", "http_error", "exception"}

\* C4: when the embedding call fails or yields an empty or absent vector,
\* the retrieval returns the empty string and no store query of either kind
\* is issued.
C4_NoEmbeddingNoStoreQuery ==
    embed_response \in FailedResponses =>
        /\ store_calls = <<>>
        /\ Returned
        /\ bundle = <<>>

C4_Witness ==
    /\ embed_response = "exception"
    /\ Returned
    /\ store_calls = <<>>

AllAttemptsEmpty ==
    /\ Len(threshold_attempts) > 0
    /\ Len(SimilarityCalls) = Len(threshold_attempts)
    /\ \A i \in 1..Len(SimilarityCalls) :
         ~SimilarityCalls[i].raised /\ SimilarityCalls[i].rows = 0

\* C5: when every threshold attempt returns zero candidates the retrieval
\* ends with the empty bundle as a normal outcome, without an exception being
\* raised and without the error handler being entered.
C5_NoResultsIsNormal ==
    (pc = "done" /\ AllAttemptsEmpty) =>
        /\ result = "returned"
        /\ bundle = <<>>
        /\ outer_except = "none"

\* C6 as stated: when the store query of one attempt raises and a lower
\* threshold remains, the next lower threshold is still queried.
C6_NextThresholdStillQueried ==
    pc = "done" =>
        \A i \in 1..Len(SimilarityCalls) :
            (SimilarityCalls[i].raised /\ i < Len(threshold_attempts)) =>
                /\ Len(SimilarityCalls) > i
                /\ SimilarityCalls[i + 1].threshold = threshold_attempts[i + 1]

\* C6, amended: a store query that raises in the retry loop ends the
\* retrieval; no further store query of either kind is issued, whatever
\* thresholds remain, and the error handler returns the empty string.
C6_FailureEndsRetrieval ==
    \A i \in 1..Len(store_calls) :
        (store_calls[i].kind = "similarity" /\ store_calls[i].raised) =>
            /\ i = Len(store_calls)
            /\ Returned
            /\ bundle = <<>>
            /\ outer_except = "StoreError"

C6_Witness ==
    /\ Returned
    /\ Len(threshold_attempts) = 3
    /\ Len(store_calls) = 1
    /\ store_calls[1].raised
    /\ \E n \in store : n.sim >= FALLBACK_HIGH

ChunksKept(aggs) ==
    \A i \in 1..Len(aggs) : \A k \in 1..Len(aggs[i].chunks) :
        Truthy(aggs[i].chunks[k].content)

HoldsChunk(aggs, fp, content) ==
    \E i \in 1..Len(aggs) :
        /\ aggs[i].file_path = fp
        /\ \E k \in 1..Len(aggs[i].chunks) : aggs[i].chunks[k].content = content

\* C7: no chunk with empty or missing content is held by any aggregate,
\* direct or graph-related, nor shown in the bundle; a candidate with empty
\* content is skipped alone, every other candidate of the batch is held by
\* the aggregate of its source.
C7_NoEmptyContent ==
    /\ ChunksKept(file_aggregates)
    /\ ChunksKept(sorted_files)
    /\ \A i \in 1..Len(bundle) :
         bundle[i].part = "chunk" => Truthy(bundle[i].content)
    /\ \A k \in 1..Len(records) :
         IF Truthy(records[k].content)
         THEN HoldsChunk(file_aggregates, FilePathOf(records[k]), records[k].content)
         ELSE ~HoldsChunk(file_aggregates, FilePathOf(records[k]), records[k].content)

C7_Witness ==
    /\ Returned
    /\ \E j, k \in 1..Len(records) :
         /\ j < k
         /\ ~Truthy(records[j].content)
         /\ HoldsChunk(file_aggregates, FilePathOf(records[k]), records[k].content)
    /\ \E i \in GraphAggregates(file_aggregates) : file_aggregates[i].chunk_count = 0
    /\ BlockCount(bundle) >= 1

ScoresOf(parts) == [i \in 1..Len(Headers(parts)) |-> Headers(parts)[i].final_score]

Kept(agg) == \E k \in 1..Len(sorted_files) : sorted_files[k].file_path = agg.file_path

\* C9: the blocks of the bundle are in non-increasing final_score order, the
\* scores being those computed after graph expansion, and every aggregate
\* the truncation left out scores no more than every aggregate kept.
C9_RankedByFinalScore ==
    pc = "done" =>
        /\ \A i, j \in 1..BlockCount(bundle) :
             i < j => ScoresOf(bundle)[i] >= ScoresOf(bundle)[j]
        /\ \A i \in 1..Len(file_aggregates) :
             /\ file_aggregates[i].final_score = FinalScore(file_aggregates[i])
             /\ ~Kept(file_aggregates[i]) =>
                  \A k \in 1..Len(sorted_files) :
                      file_aggregates[i].final_score <= sorted_files[k].final_score
        /\ \A k \in 1..Len(sorted_files) :
             /\ \E i \in 1..Len(file_aggregates) : file_aggregates[i] = sorted_files[k]
             /\ Len(sorted_files[k].chunks) > 0 =>
                  \E h \in 1..BlockCount(bundle) :
                      /\ Headers(bundle)[h].file_path = sorted_files[k].file_path
                      /\ Headers(bundle)[h].final_score = sorted_files[k].final_score
        /\ Len(sorted_files) =
             Min(Len(file_aggregates), valves.SEMANTIC_SEARCH_LIMIT)

C9_Witness ==
    /\ Returned
    /\ Len(file_aggregates) > Len(sorted_files)
    /\ BlockCount(bundle) >= 2
    /\ \E k \in 1..Len(sorted_files) : IsGraphRelated(sorted_files[k])
    /\ ScoresOf(bundle)[1] > ScoresOf(bundle)[2]
    /\ \E i \in 1..Len(file_aggregates) :
         ~Kept(file_aggregates[i]) /\ ~IsGraphRelated(file_aggregates[i])

KnownProjects(recs) ==
    {recs[k].project_name : k \in 1..Len(recs)} \ {"unknown"}

\* C10: the traversal query is issued only when graph traversal is enabled,
\* the results touch at least 2 distinct known projects and the number of
\* aggregates is strictly below the limit; otherwise no traversal query is
\* issued and no aggregate is marked graph_related.
C10_TraversalOnlyWhenGuarded ==
    /\ Len(TraversalCalls) <= 1
    /\ (pc = "traverse" \/ Len(TraversalCalls) > 0) =>
         /\ valves.ENABLE_GRAPH_TRAVERSAL
         /\ Cardinality(KnownProjects(records)) >= 2
         /\ Len(DirectAggregates) < valves.SEMANTIC_SEARCH_LIMIT
    /\ Len(TraversalCalls) = 0 => GraphAggregates(file_aggregates) = {}

C10_Witness ==
    /\ Returned
    /\ Len(TraversalCalls) = 1
    /\ GraphAggregates(file_aggregates) # {}
    /\ Len(DirectAggregates) = valves.SEMANTIC_SEARCH_LIMIT - 1

\* C11: in the final ranking no graph-related aggregate has a final_score
\* greater than or equal to that of a direct-hit aggregate.
C11_GraphBelowDirect ==
    pc = "done" =>
        \A i, j \in 1..Len(sorted_files) :
            IsGraphRelated(sorted_files[i]) /\ ~IsGraphRelated(sorted_files[j])
                => sorted_files[i].final_score < sorted_files[j].final_score

\* The threshold of the attempt that returned the candidates
EffectiveThreshold ==
    LET answered == SelectSeq(SimilarityCalls, LAMBDA c : c.rows > 0)
    IN  answered[Len(answered)].threshold

\* C12: every graph-related aggregate has max_boosted_similarity equal to
\* max(0.5, t - 0.1 * hops), t being the threshold of the attempt that
\* returned the candidates and hops the hop count it records; so its score is
\* at least 0.5, and it has source_type 'file' and graph_related true.
C12_GraphScoreFromEffectiveThreshold ==
    \A i \in GraphAggregates(file_aggregates) :
        LET agg == file_aggregates[i]
            penalised == EffectiveThreshold - 100 * agg.hops
        IN  /\ agg.max_boosted_similarity =
                   (IF penalised > 500 THEN penalised ELSE 500)
            /\ agg.max_boosted_similarity >= 500
            /\ agg.hops \in 1..valves.GRAPH_TRAVERSAL_DEPTH
            /\ agg.source_type = "file"
            /\ agg.graph_related = TRUE

\* A run whose threshold was lowered twice before the traversal: the score
\* of the graph-related aggregate comes from 0.3, not from the configured 0.75
C12_Witness ==
    /\ Returned
    /\ Len(SimilarityCalls) = 3
    /\ valves.MIN_SIMILARITY_THRESHOLD - 2 * 100 > 500
    /\ \E i \in GraphAggregates(file_aggregates) :
         /\ file_aggregates[i].hops = 2
         /\ file_aggregates[i].max_boosted_similarity = 500

\* The traversal query answered, with at least one row
TraversalAnswered ==
    /\ Len(TraversalCalls) = 1
    /\ ~TraversalCalls[1].raised
    /\ Len(graph_records) >= 1

\* C13 as stated: when the traversal query returns at least one related
\* document, at least one aggregate with graph_related = true is added.
C13_RelatedDocumentAddsAggregate ==
    (Returned /\ TraversalAnswered) => GraphAggregates(file_aggregates) # {}

\* C13, amended: a related document the traversal returns whose path is not
\* already a key of the aggregate set, and whose contents list is not empty,
\* is added as an aggregate with graph_related = true.
C13_NewRelatedDocumentAddsAggregate ==
    (Returned /\ TraversalAnswered) =>
        \A k \in 1..Len(graph_records) :
            (/\ ~HasKey(DirectAggregates, graph_records[k].file_path)
             /\ Len(graph_records[k].contents) > 0)
            => \E i \in GraphAggregates(file_aggregates) :
                   file_aggregates[i].file_path = graph_records[k].file_path

\* The traversal returns a document that is already a direct hit and one whose
\* only content is null; the second is added
C13_Witness ==
    /\ Returned
    /\ TraversalAnswered
    /\ \E k \in 1..Len(graph_records) :
         HasKey(DirectAggregates, graph_records[k].file_path)
    /\ \E k \in 1..Len(graph_records) :
         /\ ~HasKey(DirectAggregates, graph_records[k].file_path)
         /\ SelectSeq(graph_records[k].contents, Truthy) = <<>>
    /\ Cardinality(GraphAggregates(file_aggregates)) = 1

\* C14: every aggregate has final_score = max_boosted_similarity + 0.03 *
\* (chunk_count - 1); of two aggregates with equal max_boosted_similarity the
\* one with more chunks has the strictly higher final_score, and for equal
\* chunk_count the final_score does not decrease with max_boosted_similarity.
C14_DiversityBonusMonotone ==
    pc = "done" =>
        /\ \A i \in 1..Len(file_aggregates) :
             file_aggregates[i].final_score =
                 file_aggregates[i].max_boosted_similarity
                 + 30 * (file_aggregates[i].chunk_count - 1)
        /\ \A i, j \in 1..Len(file_aggregates) :
             LET a == file_aggregates[i]
                 b == file_aggregates[j]
             IN  /\ (a.max_boosted_similarity = b.max_boosted_similarity
                      /\ a.chunk_count > b.chunk_count)
                        => a.final_score > b.final_score
                 /\ (a.chunk_count = b.chunk_count
                      /\ a.max_boosted_similarity >= b.max_boosted_similarity)
                        => a.final_score >= b.final_score

\* Two aggregates of equal max_boosted_similarity, one with two chunks and one
\* with none, and two of equal chunk_count and different similarity
C14_Witness ==
    /\ Returned
    /\ \E i, j \in 1..Len(file_aggregates) :
         /\ file_aggregates[i].max_boosted_similarity =
                file_aggregates[j].max_boosted_similarity
         /\ file_aggregates[i].chunk_count = 2
         /\ file_aggregates[j].chunk_count = 0
         /\ file_aggregates[i].final_score > file_aggregates[j].final_score
    /\ \E i, j \in 1..Len(file_aggregates) :
         /\ file_aggregates[i].chunk_count = file_aggregates[j].chunk_count
         /\ file_aggregates[i].final_score > file_aggregates[j].final_score

\* The candidates of one answer of the similarity query, as a set
Candidates(answer) == {answer[k] : k \in 1..Len(answer)}

\* The answers the similarity query of this run gives at a threshold
AnswersAt(threshold) ==
    SimilarityQuery(store, threshold, valves.ENABLE_HYBRID_SEARCH,
                    Keywords(query), InitialLimit(valves.SEMANTIC_SEARCH_LIMIT))

\* C16 as stated: for a fixed query, keyword list, fetch cap and store, the set
\* of candidates returned at threshold 0.3 is a superset of the set returned
\* at threshold 0.55.
C16_LowerThresholdSuperset ==
    \A hi \in AnswersAt(550), lo \in AnswersAt(300) :
        Candidates(hi) \subseteq Candidates(lo)

\* C16, amended: the same, when the nodes whose similarity is at least 0.3
\* are no more than the fetch cap.
C16_SupersetWithinFetchCap ==
    Cardinality({n \in store : n.sim >= 300})
        <= InitialLimit(valves.SEMANTIC_SEARCH_LIMIT)
    => \A hi \in AnswersAt(550), lo \in AnswersAt(300) :
           Candidates(hi) \subseteq Candidates(lo)

\* As many matching nodes as the query fetches, some of them at 0.55 or more,
\* and the query has been issued
C16_Witness ==
    /\ Len(SimilarityCalls) >= 1
    /\ Cardinality({n \in store : n.sim >= 300})
          = InitialLimit(valves.SEMANTIC_SEARCH_LIMIT)
    /\ \E hi \in AnswersAt(550), lo \in AnswersAt(300) :
         /\ Len(hi) > 0
         /\ Len(lo) > Len(hi)
    /\ valves.ENABLE_HYBRID_SEARCH
    /\ Len(keywords) > 0

\* The bundle an invocation builds from the answers it was given
BundleAlone(f) ==
    LET direct == AggregateRecords(f.records).file_aggregates
        answered == \E k \in 1..Len(f.store_calls) :
                        /\ f.store_calls[k].kind = "traversal"
                        /\ ~f.store_calls[k].raised
        aggs == IF answered
                THEN ExpandFrom(direct, f.graph_records, f.min_threshold)
                ELSE direct
    IN  FormatContext(SortedFiles(ScoreAll(aggs), valves.SEMANTIC_SEARCH_LIMIT))

\* What an invocation with locals f returns is what it returns when it runs
\* alone: its thresholds, keywords and candidates are those of its own query
\* against the store, and its bundle is built from its own answers
SoloOutcome(f) ==
    f.pc = "done" =>
        LET asked == SelectSeq(f.store_calls, LAMBDA c : c.kind = "similarity")
            attempts == ThresholdAttempts(valves.MIN_SIMILARITY_THRESHOLD,
                                          valves.ENABLE_ADAPTIVE_THRESHOLD)
        IN  /\ f.result = "returned"
            /\ Len(asked) <= Len(attempts)
            /\ \A k \in 1..Len(asked) : asked[k].threshold = attempts[k]
            /\ IF f.outer_except # "none" \/ EmbeddingMissing(f.embedding)
               THEN f.bundle = <<>>
               ELSE /\ f.keywords = Keywords(f.query)
                    /\ Len(f.records) > 0
                    /\ f.records \in SimilarityQuery(store, f.min_threshold,
                            valves.ENABLE_HYBRID_SEARCH, Keywords(f.query),
                            InitialLimit(valves.SEMANTIC_SEARCH_LIMIT))
                    /\ f.bundle = BundleAlone(f)

\* C17: two invocations that interleave at their awaits share no mutable
\* state: each returns the bundle it returns when run alone against the same
\* store, and neither changes the configuration or the store.
C17_ConcurrentInvocationsIndependent ==
    /\ [](SoloOutcome(Frame) /\ SoloOutcome(parked))
    /\ [][valves' = valves /\ store' = store]_vars

\* One invocation has returned a bundle while the other, with another query,
\* waits for its traversal with aggregates of its own
C17_Witness ==
    /\ Returned
    /\ BlockCount(bundle) >= 1
    /\ parked.pc = "traverse"
    /\ parked.query # query
    /\ Len(parked.store_calls) >= 1
    /\ Len(TraversalCalls) = 1

\* The candidates merged into the aggregate of source key fp
MergedRecords(fp) ==
    {k \in 1..Len(records) :
        FilePathOf(records[k]) = fp /\ Truthy(records[k].content)}

\* C18: after aggregation and after graph expansion every aggregate's
\* chunk_count is the length of its chunk list, which is the number of
\* candidate records (or traversal contents) merged into it.
C18_ChunkCountIsChunks ==
    \A i \in 1..Len(file_aggregates) :
        LET agg == file_aggregates[i]
        IN  /\ agg.chunk_count = Len(agg.chunks)
            /\ IF IsGraphRelated(agg)
               THEN \E k \in 1..Len(graph_records) :
                        /\ graph_records[k].file_path = agg.file_path
                        /\ agg.chunk_count = Cardinality(
                               {c \in 1..Len(graph_records[k].contents) :
                                   Truthy(graph_records[k].contents[c])})
               ELSE agg.chunk_count = Cardinality(MergedRecords(agg.file_path))

\* Two candidates merged into one aggregate, one candidate skipped, and a
\* graph-related aggregate whose only content is null
C18_Witness ==
    /\ Returned
    /\ \E i \in 1..Len(file_aggregates) :
         ~IsGraphRelated(file_aggregates[i]) /\ file_aggregates[i].chunk_count = 2
    /\ \E k \in 1..Len(records) : ~Truthy(records[k].content)
    /\ \E i \in GraphAggregates(file_aggregates) :
         /\ file_aggregates[i].chunk_count = 0
         /\ file_aggregates[i].chunks = <<>>

\* C19: the number of blocks is min(result limit, number of aggregates):
\* every aggregate that survives the truncation is rendered as a block.
C19_EveryKeptAggregateRendered ==
    pc = "done" =>
        BlockCount(bundle) =
            Min(valves.SEMANTIC_SEARCH_LIMIT, Len(file_aggregates))

\* C20: the attempt list is [T], then 0.4 if adaptive is enabled and T > 0.4,
\* then 0.3 if adaptive is enabled and T > 0.3; it is strictly descending
\* with at most 3 entries, and each attempted entry gets exactly one
\* similarity query.
C20_AttemptList ==
    (pc # "start" /\ embed_response = "vector") =>
        LET T == valves.MIN_SIMILARITY_THRESHOLD
            adaptive == valves.ENABLE_ADAPTIVE_THRESHOLD
            n == Len(threshold_attempts)
            asked == SimilarityCalls
        IN  /\ threshold_attempts =
                   <<T>> \o (IF adaptive /\ T > 400 THEN <<400>> ELSE <<>>)
                         \o (IF adaptive /\ T > 300 THEN <<300>> ELSE <<>>)
            /\ ~adaptive => threshold_attempts = <<T>>
            /\ n <= 3
            /\ \A k \in 1..(n - 1) :
                   threshold_attempts[k] > threshold_attempts[k + 1]
            /\ Len(asked) <= n
            /\ \A k \in 1..Len(asked) : asked[k].threshold = threshold_attempts[k]
            /\ Len(asked) = IF pc = "query" THEN attempt_idx - 1 ELSE attempt_idx

\* T = 0.4 with adaptive enabled: the list is [0.4, 0.3] and both were queried
C20_Witness ==
    /\ Returned
    /\ valves.MIN_SIMILARITY_THRESHOLD = 400
    /\ valves.ENABLE_ADAPTIVE_THRESHOLD
    /\ Len(threshold_attempts) = 2
    /\ Len(SimilarityCalls) = 2
    /\ BlockCount(bundle) >= 1

\* C21: the keywords are the set of the query's lowercase tokens longer than
\* 3 characters and every candidate's boosted_similarity is its similarity
\* plus 0.02 for each keyword of that set found in the lowercased content and
\* for each found in the lowercased source path (hybrid mode on and at least
\* one keyword; 0 otherwise): a repeated token adds nothing.
C21_BoostCountsKeywordSet ==
    \A k \in 1..Len(records) :
        LET r == records[k]
            kws == {keywords[i] : i \in 1..Len(keywords)}
            text == IF r.content = NULL THEN "" ELSE r.content
            inContent == {kw \in kws : Contains(Lower(text), kw)}
            inPath == {kw \in kws :
                          r.file_path # NULL /\ Contains(Lower(r.file_path), kw)}
            keyword_boost ==
                IF valves.ENABLE_HYBRID_SEARCH /\ kws # {}
                THEN 20 * (Cardinality(inContent) + Cardinality(inPath))
                ELSE 0
        IN  /\ \A kw \in kws : Len(kw) > 3 /\ Lower(kw) = kw
            /\ r.boosted_similarity = r.similarity + keyword_boost

\* The parts of the block that starts with the header at position h
BlockEnd(parts, h) ==
    CHOOSE e \in h..Len(parts) :
        parts[e].part = "end" /\ \A j \in h..(e - 1) : parts[j].part # "end"

BlockBody(parts, h) == SubSeq(parts, h + 1, BlockEnd(parts, h) - 1)

\* C22: a block shows at most 2 chunks of its aggregate; they are the chunks
\* of the highest boosted_similarity of that aggregate, in descending order,
\* and the elision marker stands between them exactly when 2 are shown.
C22_BlockShowsTopTwoChunks ==
    pc = "done" =>
        \A h \in {j \in 1..Len(bundle) : bundle[j].part = "header"} :
            LET body == BlockBody(bundle, h)
                shown == SelectSeq(body, LAMBDA p : p.part = "chunk")
                agg == file_aggregates[IndexOf(file_aggregates, bundle[h].file_path)]
                n == Len(agg.chunks)
                b == [i \in 1..n |-> agg.chunks[i].boosted_similarity]
            IN  /\ Len(shown) <= 2
                /\ Len(shown) = Min(2, n)
                /\ \E i \in 1..n :
                      /\ agg.chunks[i].content = shown[1].content
                      /\ \A j \in 1..n : b[j] <= b[i]
                      /\ Len(shown) = 2 =>
                            \E k \in (1..n) \ {i} :
                               /\ agg.chunks[k].content = shown[2].content
                               /\ \A j \in (1..n) \ {i} : b[j] <= b[k]
                /\ [j \in 1..Len(body) |-> body[j].part] =
                      IF Len(shown) = 2 THEN <<"chunk", "elision", "chunk">>
                      ELSE <<"chunk">>

\* A block of an aggregate of 3 chunks whose second shown chunk is not the
\* second by raw similarity, next to a block that shows 1 chunk
C22_Witness ==
    /\ Returned
    /\ \E i \in 1..Len(file_aggregates) : file_aggregates[i].chunk_count = 3
    /\ \E h \in 1..Len(bundle) :
         /\ bundle[h].part = "header"
         /\ BlockBody(bundle, h) =
               <<[part |-> "chunk", content |-> "Auth x"], [part |-> "elision"],
                 [part |-> "chunk", content |-> "auth z"]>>
    /\ \E h \in 1..Len(bundle) :
         bundle[h].part = "header" /\ Len(BlockBody(bundle, h)) = 1

\* C23: whenever the traversal query is issued, the aggregates built from
\* the direct hits belong to at least 2 distinct projects: a candidate that
\* was discarded for its empty content does not count.
C23_TraversalNeedsTwoAggregateProjects ==
    Len(TraversalCalls) > 0 =>
        Cardinality({file_aggregates[i].project_name :
                        i \in (1..Len(file_aggregates))
                                 \ GraphAggregates(file_aggregates)}
                    \ {"unknown"}) >= 2

\* C24: if the retrieval returns the empty bundle and no call failed (the
\* result limit being above 0), then every threshold of the attempt list was
\* queried and each returned zero candidates: the retry loop never stops at
\* a threshold whose candidates are all discarded while a lower one is
\* untried.
C24_EmptyBundleMeansAllTried ==
    (/\ Returned
     /\ bundle = <<>>
     /\ valves.SEMANTIC_SEARCH_LIMIT > 0
     /\ embed_response = "vector"
     /\ outer_except \in {"none", "NameError"}
     /\ \A k \in 1..Len(store_calls) : ~store_calls[k].raised)
    => /\ Len(SimilarityCalls) = Len(threshold_attempts)
       /\ \A k \in 1..Len(SimilarityCalls) : SimilarityCalls[k].rows = 0

\* C25: in one invocation the store receives at most 3 similarity queries
\* and at most 1 traversal query; the traversal query comes only after a
\* similarity query that returned at least one candidate and after the
\* aggregation of the direct hits is complete, and no similarity query
\* follows it.
C25_StoreCallProtocol ==
    /\ Len(SimilarityCalls) <= 3
    /\ Len(TraversalCalls) <= 1
    /\ \A k \in 1..Len(store_calls) :
          store_calls[k].kind = "traversal" =>
              /\ k = Len(store_calls)
              /\ k > 1
              /\ store_calls[k - 1].kind = "similarity"
              /\ ~store_calls[k - 1].raised
              /\ store_calls[k - 1].rows >= 1
              /\ store_calls[k - 1].rows = Len(records)
    /\ (pc = "traverse" \/ Len(TraversalCalls) > 0) =>
          \A k \in 1..Len(records) :
              Truthy(records[k].content) =>
                  \E i \in (1..Len(file_aggregates))
                               \ GraphAggregates(file_aggregates) :
                     /\ file_aggregates[i].file_path = FilePathOf(records[k])
                     /\ \E c \in 1..Len(file_aggregates[i].chunks) :
                           /\ file_aggregates[i].chunks[c].content
                                 = records[k].content
                           /\ file_aggregates[i].chunks[c].start_offset
                                 = records[k].start_offset

\* Three similarity queries, the third returning candidates of two projects,
\* then the traversal query
C25_Witness ==
    /\ Returned
    /\ Len(SimilarityCalls) = 3
    /\ Len(TraversalCalls) = 1
    /\ store_calls[4].kind = "traversal"
    /\ Len(records) >= 2
    /\ BlockCount(bundle) >= 2

\* The traversal rows that name the related source fp
RowsOf(fp) == {k \in 1..Len(graph_records) : graph_records[k].file_path = fp}

\* C26: graph expansion never replaces or modifies an aggregate already in
\* the set, and a graph-related aggregate records the minimum hop count
\* among the traversal rows of its source, so that its graph_score does not
\* depend on the order in which the rows arrive.
C26_ExpansionKeepsAggregatesMinHops ==
    (pc = "done" /\ Len(TraversalCalls) > 0) =>
        \A i \in 1..Len(file_aggregates) :
            LET agg == file_aggregates[i]
            IN  IF IsGraphRelated(agg)
                THEN /\ RowsOf(agg.file_path) # {}
                     /\ \A k \in RowsOf(agg.file_path) :
                           agg.hops <= graph_records[k].hops
                     /\ \A k \in RowsOf(agg.file_path) :
                           agg.max_boosted_similarity >=
                               Max(500, min_threshold - 100 * graph_records[k].hops)
                ELSE LET m == MergedRecords(agg.file_path)
                     IN  /\ agg.chunk_count = Cardinality(m)
                         /\ \E k \in m :
                               /\ agg.max_boosted_similarity
                                     = records[k].boosted_similarity
                               /\ agg.project_name = records[k].project_name
                               /\ agg.source_type = records[k].source_type
                         /\ \A k \in m : agg.max_boosted_similarity
                                            >= records[k].boosted_similarity

\* Positions in pipe.events of the calls of a helper, of the chunks yielded
\* and of the status events with done = true
CallsOf(target) ==
    {k \in 1..Len(pipe.events) :
        pipe.events[k].type = "call" /\ pipe.events[k].target = target}

Yields == {k \in 1..Len(pipe.events) : pipe.events[k].type = "yield"}

FinalStatuses ==
    {k \in 1..Len(pipe.events) :
        pipe.events[k].type = "status" /\ pipe.events[k].done}

\* A request that is not auto-generated and has at least one message
Served == ~IsAutoGenerated(UserMessage(pipe.messages)) /\ Len(pipe.messages) > 0

\* The order of retrieval, LLM call, chunks and final status in one call of
\* pipe(), and the silence of an auto-generated request
PipeOrder ==
    /\ IsAutoGenerated(UserMessage(pipe.messages)) =>
          /\ pipe.events = <<>>
          /\ pc = "idle"
          /\ store_calls = <<>>
    /\ Served =>
          /\ Cardinality(CallsOf("_call_llm")) <= 1
          /\ Cardinality(CallsOf("_get_relevant_context")) <= 1
          /\ valves.SEMANTIC_SEARCH_ENABLED =>
                \A k \in CallsOf("_call_llm") :
                    /\ pc = "done"
                    /\ \E j \in CallsOf("_get_relevant_context") : j < k
          /\ ~valves.SEMANTIC_SEARCH_ENABLED =>
                CallsOf("_get_relevant_context") = {} /\ pc = "idle"
          /\ pipe.pc \in {"streaming", "returned"} =>
                Cardinality(CallsOf("_call_llm")) = 1
          /\ \A y \in Yields : \E c \in CallsOf("_call_llm") : c < y
          /\ \A k \in FinalStatuses :
                /\ k = Len(pipe.events)
                /\ pipe.pc = "returned"
                /\ pipe.llm_left = <<>>
                /\ \A y \in Yields : y < k

\* C27: for a request that is not auto-generated and has a message the
\* retrieval (when enabled) finishes before the LLM call starts, a retrieval
\* that fails or finds nothing does not prevent the LLM call, and the status
\* event with done = true is emitted exactly once, after the last chunk; an
\* auto-generated request yields nothing and calls neither.
C27_PipeOrchestration ==
    /\ PipeOrder
    /\ (Served /\ pipe.pc = "returned") => Cardinality(FinalStatuses) = 1

\* C27, amended: the same, the status event with done = true being emitted
\* exactly once when the caller gave an event emitter and never otherwise.
C27_PipeOrchestrationWithEmitter ==
    /\ PipeOrder
    /\ (Served /\ pipe.pc = "returned") =>
          Cardinality(FinalStatuses) = IF pipe.emitter THEN 1 ELSE 0

\* A served request whose retrieval failed on the store: the LLM was called
\* without context, two chunks were yielded, then the final status
C27_Witness ==
    /\ pipe.pc = "returned"
    /\ Served
    /\ pipe.emitter
    /\ outer_except = "StoreError"
    /\ bundle = <<>>
    /\ Cardinality(Yields) = 2
    /\ FinalStatuses = {Len(pipe.events)}
    /\ \E c \in CallsOf("_call_llm") : ~pipe.events[c].with_context

====
